---------------------------- MODULE Spec2Model ----------------------------
(***************************************************************************)
(* rclac: an interactive reverse-Polish-notation calculator (src/main.rs). *)
(*                                                                         *)
(* The program is a read-eval-print loop around one State (a stack of      *)
(* isize and a table of named isize variables).  A line is split on        *)
(* whitespace, every token is classified into an Op (From<&str> for Op)    *)
(* and executed (State::exec).  The line editor holds a clone of the State *)
(* as its Completer and evaluates partial lines on a clone of that clone.  *)
(*                                                                         *)
(* Strings (lines, tokens, variable names) are sequences of one-character  *)
(* strings, so that tokenizing, classifying, parsing and formatting are    *)
(* computed character by character.  isize is scaled to IntBits bits; the  *)
(* u32 of `a as u32` is scaled to half of that, as u32 is half of a 64-bit *)
(* isize.                                                                  *)
(*                                                                         *)
(* Four specifications share the variables:                                *)
(*   Spec       the session: main's loop, readline, completion, println    *)
(*   SpecExec   one State::exec on a State drawn from a bounded set        *)
(*   SpecEval   one State::eval of a line on a State drawn from a set      *)
(*   SpecParse  Op::from on a token drawn from a bounded set               *)
(***************************************************************************)
EXTENDS Integers, Sequences, FiniteSets, TLC

VARIABLES
    stack,            \* state.stack : Vec<isize>, bottom first
    vars,             \* state.vars : HashMap<String, isize>, a function on the bound names
    completer,        \* the State the editor holds as its Completer (NoState before the first)
    pc,               \* where main (or the function under study) is
    output,           \* standard output: the lines println! has written so far, oldest first
    preview,          \* the candidate the last Completer::complete returned (None before it)
    partial,          \* the partial line that completion was asked for
    submitted,        \* history: the lines readline has returned so far
    overflow_checks,  \* build profile: TRUE = overflow checks on (debug), FALSE = off (release)
    pre,              \* history: the State before the last exec / eval
    op,               \* the Op last classified / executed
    token,            \* the token under classification
    line              \* the line last evaluated

vars_all == <<stack, vars, completer, pc, output, preview, partial, submitted,
              overflow_checks, pre, op, token, line>>

-----------------------------------------------------------------------------
(* Bounds of the model *)

\* width of the machine integer (isize), scaled down from 64
IntBits == 8
\* longest token drawn for the classifier
MaxTokenLen == 4
\* deepest stack drawn as the input of one exec / eval
MaxStack == 2
\* most lines one session submits
MaxSubmissions == 2
\* most tokens in a line drawn for one eval
MaxLineTokens == 4

-----------------------------------------------------------------------------
(* Options and characters *)

None == [some |-> FALSE]
Some(x) == [some |-> TRUE, val |-> x]

RECURSIVE Pow2(_)
Pow2(n) == IF n = 0 THEN 1 ELSE 2 * Pow2(n - 1)

MinInt == -Pow2(IntBits - 1)
MaxInt == Pow2(IntBits - 1) - 1
InRange(x) == MinInt <= x /\ x <= MaxInt
\* two's complement wrap-around to IntBits bits
Wrap(x) == ((x - MinInt) % Pow2(IntBits)) + MinInt

Digits == {"0", "1", "2", "3", "4", "5", "6", "7", "8", "9"}
Letters ==
    {"a", "b", "c", "d", "e", "f", "g", "h", "i", "j", "k", "l", "m",
     "n", "o", "p", "q", "r", "s", "t", "u", "v", "w", "x", "y", "z",
     "A", "B", "C", "D", "E", "F", "G", "H", "I", "J", "K", "L", "M",
     "N", "O", "P", "Q", "R", "S", "T", "U", "V", "W", "X", "Y", "Z"}
AlphaNum == Letters \cup Digits
Whitespace == {" ", "\t"}

DigitValue(c) ==
    CASE c = "0" -> 0 [] c = "1" -> 1 [] c = "2" -> 2 [] c = "3" -> 3
      [] c = "4" -> 4 [] c = "5" -> 5 [] c = "6" -> 6 [] c = "7" -> 7
      [] c = "8" -> 8 [] c = "9" -> 9

DigitChar(d) ==
    CASE d = 0 -> "0" [] d = 1 -> "1" [] d = 2 -> "2" [] d = 3 -> "3"
      [] d = 4 -> "4" [] d = 5 -> "5" [] d = 6 -> "6" [] d = 7 -> "7"
      [] d = 8 -> "8" [] d = 9 -> "9"

BoundedSeq(S, n) == UNION {[1..k -> S] : k \in 0..n}

-----------------------------------------------------------------------------
(* The operations: enum Op *)

Add == [kind |-> "Add"]
Clear == [kind |-> "Clear"]
Div == [kind |-> "Div"]
Double == [kind |-> "Double"]
Exp == [kind |-> "Exp"]
Fact == [kind |-> "Fact"]
Inv == [kind |-> "Inv"]
Mul == [kind |-> "Mul"]
Noop == [kind |-> "Noop"]
Prod == [kind |-> "Prod"]
Push(value) == [kind |-> "Push", value |-> value]
Square == [kind |-> "Square"]
Sub == [kind |-> "Sub"]
Sum == [kind |-> "Sum"]
Swap == [kind |-> "Swap"]
VarInit(name) == [kind |-> "VarInit", name |-> name]
VarRef(name) == [kind |-> "VarRef", name |-> name]

-----------------------------------------------------------------------------
(* The classifier: impl From<&str> for Op, parse_op and its parsers *)

\* isize::from_str: an optional sign (+ or -), then one or more decimal
\* digits, accumulated with checked arithmetic (towards the sign).
RECURSIVE FromStrDigits(_, _, _, _)
FromStrDigits(digits, i, acc, negative) ==
    IF i > Len(digits) THEN Some(acc)
    ELSE IF digits[i] \notin Digits THEN None
    ELSE LET next == IF negative THEN acc * 10 - DigitValue(digits[i])
                     ELSE acc * 10 + DigitValue(digits[i])
         IN  IF InRange(next) THEN FromStrDigits(digits, i + 1, next, negative)
             ELSE None

FromStr(s) ==
    IF s = <<>> THEN None
    ELSE LET signed == s[1] \in {"+", "-"}
             digits == IF signed THEN Tail(s) ELSE s
         IN  IF digits = <<>> THEN None
             ELSE FromStrDigits(digits, 1, 0, s[1] = "-")

\* the value of a string of decimal digits
RECURSIVE DecimalValue(_)
DecimalValue(digits) ==
    IF digits = <<>> THEN 0
    ELSE 10 * DecimalValue(SubSeq(digits, 1, Len(digits) - 1))
         + DigitValue(digits[Len(digits)])

IsDigitString(d) == d # <<>> /\ \A i \in 1..Len(d) : d[i] \in Digits

\* mutant of parse_push: the literal is parsed in a wider type and cast,
\* so a value out of range wraps around instead of being rejected
ParsePushWrapping(tok) ==
    LET signed == tok # <<>> /\ tok[1] \in {"+", "-"}
        digits == IF signed THEN Tail(tok) ELSE tok
    IN  IF ~IsDigitString(digits) THEN None
        ELSE Some(Push(Wrap(IF tok[1] = "-" THEN -DecimalValue(digits)
                            ELSE DecimalValue(digits))))

\* fn parse_push
ParsePush(tok) ==
    LET parsed == FromStr(tok)
    IN  IF parsed.some THEN Some(Push(parsed.val)) ELSE None

\* Regex::captures for `<sigil>([a-zA-Z][a-zA-Z0-9]*)`: the leftmost place
\* where the sigil is followed by a letter, then the longest run of letters
\* and digits from that letter on (the capture group 1).
Captures(sigil, tok) ==
    LET starts == {i \in 1..(Len(tok) - 1) :
                      tok[i] = sigil /\ tok[i + 1] \in Letters}
    IN  IF starts = {} THEN None
        ELSE LET i == CHOOSE x \in starts : \A y \in starts : x <= y
                 ends == {k \in (i + 1)..Len(tok) :
                             \A m \in (i + 1)..k : tok[m] \in AlphaNum}
                 k == CHOOSE x \in ends : \A y \in ends : y <= x
             IN  Some(SubSeq(tok, i + 1, k))

\* fn parse_var_init, with INIT_RE
ParseVarInit(tok) ==
    LET captures == Captures("=", tok)
    IN  IF captures.some THEN Some(VarInit(captures.val)) ELSE None

\* fn parse_var_ref, with VAR_RE
ParseVarRef(tok) ==
    LET captures == Captures("$", tok)
    IN  IF captures.some THEN Some(VarRef(captures.val)) ELSE None

\* mutant of parse_op: the reference pattern is tried before the assignment
ParseOpRefFirst(tok) ==
    LET init == ParseVarInit(tok)
        ref == ParseVarRef(tok)
        push == ParsePush(tok)
    IN  IF ref.some THEN ref.val
        ELSE IF init.some THEN init.val
        ELSE IF push.some THEN push.val
        ELSE Noop

\* fn parse_op: var init, or else var ref, or else push, or Noop
ParseOp(tok) ==
    LET init == ParseVarInit(tok)
        ref == ParseVarRef(tok)
        push == ParsePush(tok)
    IN  IF init.some THEN init.val
        ELSE IF ref.some THEN ref.val
        ELSE IF push.some THEN push.val
        ELSE Noop

\* impl From<&str> for Op
OpFrom(string) ==
    CASE string = <<"*">> -> Mul
      [] string = <<"*", "*">> -> Double
      [] string = <<"+">> -> Add
      [] string = <<"/">> -> Div
      [] string = <<"-">> -> Sub
      [] string = <<"!">> -> Fact
      [] string = <<"^">> -> Exp
      [] string = <<"^", "^">> -> Square
      [] string = <<"c">> -> Clear
      [] string = <<"i", "n", "v">> -> Inv
      [] string = <<"s", "w", "a", "p">> -> Swap
      [] string = <<"s", "u", "m">> -> Sum
      [] string = <<"p", "r", "o", "d">> -> Prod
      [] OTHER -> ParseOp(string)

-----------------------------------------------------------------------------
(* Machine arithmetic: isize, with the overflow behaviour of the build *)

\* the outcome of an expression: a value, or a panic that ends the process
Ok(x) == [panic |-> FALSE, val |-> x]
Panic == [panic |-> TRUE, val |-> 0]

\* +, -, * and unary - on isize: with overflow checks the process panics on
\* overflow ("attempt to ... with overflow"), without them the result wraps
Checked(x) ==
    IF InRange(x) THEN Ok(x)
    ELSE IF overflow_checks THEN Panic
    ELSE Ok(Wrap(x))

Abs(x) == IF x < 0 THEN -x ELSE x

\* isize `/` for a non-zero divisor: truncates towards zero; MIN / -1
\* panics in every build ("attempt to divide with overflow")
IntDiv(a, b) ==
    IF a = MinInt /\ b = -1 THEN Panic
    ELSE LET q == Abs(a) \div Abs(b)
         IN  Ok(IF (a < 0) # (b < 0) THEN -q ELSE q)

\* fn save_div
SaveDiv(a, b) ==
    IF b = 0 THEN Ok(None)
    ELSE LET q == IntDiv(a, b)
         IN  IF q.panic THEN Panic ELSE Ok(Some(q.val))

\* `a as u32`: keeps the low bits (u32 has half the bits of isize)
CastBits == IntBits \div 2
AsU32(a) == a % Pow2(CastBits)

\* isize::pow: overflow is an overflow of a multiplication
RECURSIVE IntPow(_, _)
IntPow(base, exp) ==
    IF exp = 0 THEN Ok(1)
    ELSE LET r == IntPow(base, exp - 1)
         IN  IF r.panic THEN Panic ELSE Checked(r.val * base)

\* Iterator::product of a sequence of isize, front to back, from 1
RECURSIVE Product(_)
Product(seq) ==
    IF seq = <<>> THEN Ok(1)
    ELSE LET r == Product(SubSeq(seq, 1, Len(seq) - 1))
         IN  IF r.panic THEN Panic ELSE Checked(r.val * seq[Len(seq)])

\* Iterator::sum of a sequence of isize, front to back, from 0
RECURSIVE IterSum(_)
IterSum(seq) ==
    IF seq = <<>> THEN Ok(0)
    ELSE LET r == IterSum(SubSeq(seq, 1, Len(seq) - 1))
         IN  IF r.panic THEN Panic ELSE Checked(r.val + seq[Len(seq)])

\* the range lo..hi (hi excluded) as a sequence; empty when hi <= lo
Range(lo, hi) == [i \in 1..(IF hi > lo THEN hi - lo ELSE 0) |-> lo + i - 1]

-----------------------------------------------------------------------------
(* The closures State::exec hands to apply and apply2 *)

\* mutant of the Add closure: the first operand is added to itself
AddFnSameOperand(a, b) == Checked(a + a)
AddFn(a, b) == Checked(a + b)
DivFn(a, b) ==
    LET r == SaveDiv(b, a)
    IN  IF r.panic THEN Panic
        ELSE IF r.val.some THEN Ok(r.val.val) ELSE Ok(0)
DoubleFn(a) == Checked(a * 2)
ExpFn(a, b) == IntPow(b, AsU32(a))
FactFn(a) ==
    LET hi == Checked(a + 1)
    IN  IF hi.panic THEN Panic ELSE Product(Range(1, hi.val))
SquareFn(a) == IntPow(a, 2)
SubFn(a, b) == Checked(b - a)
MulFn(a, b) == Checked(a * b)
InvFn(a) == Checked(-a)

-----------------------------------------------------------------------------
(* struct State and its methods.  A State is [stack, vars]; a method that  *)
(* can panic yields [stack, vars, panic]                                   *)

EmptyVars == [k \in {} |-> 0]

\* State::new
New == [stack |-> <<>>, vars |-> EmptyVars]

Running(stk, vs) == [stack |-> stk, vars |-> vs, panic |-> FALSE]
Panicked(stk, vs) == [stack |-> stk, vars |-> vs, panic |-> TRUE]

\* Vec::pop: the last element (if any) and the stack left behind
VecPop(stk) ==
    IF stk = <<>> THEN [some |-> FALSE, rest |-> stk]
    ELSE [some |-> TRUE, val |-> stk[Len(stk)], rest |-> SubSeq(stk, 1, Len(stk) - 1)]

\* State::peek
Peek(stk) == IF stk = <<>> THEN None ELSE Some(stk[Len(stk)])

\* mutant of State::clear: the bottom element is kept (truncate(1))
ClearStackKeepBottom(stk) == IF stk = <<>> THEN <<>> ELSE <<stk[1]>>

\* State::clear
ClearStack(stk) == <<>>

\* State::push
PushVal(stk, val) == Append(stk, val)

\* mutant of pop2: the top is popped before the length is known to suffice,
\* and is lost when there is no second element
Pop2Consuming(stk) ==
    IF Len(stk) > 1
    THEN [some |-> TRUE, a |-> stk[Len(stk)], b |-> stk[Len(stk) - 1],
          rest |-> SubSeq(stk, 1, Len(stk) - 2)]
    ELSE [some |-> FALSE, rest |-> <<>>]

\* State::pop2: a is popped first (the top), b second; with fewer than two
\* elements nothing is popped
Pop2(stk) ==
    IF Len(stk) > 1
    THEN [some |-> TRUE, a |-> stk[Len(stk)], b |-> stk[Len(stk) - 1],
          rest |-> SubSeq(stk, 1, Len(stk) - 2)]
    ELSE [some |-> FALSE, rest |-> stk]

\* the call of a closure handed to apply: func names the Op whose closure it is
Call1(func, a) ==
    CASE func = "Double" -> DoubleFn(a)
      [] func = "Fact" -> FactFn(a)
      [] func = "Square" -> SquareFn(a)
      [] func = "Inv" -> InvFn(a)

\* the call of a closure handed to apply2
Call2(func, a, b) ==
    CASE func = "Add" -> AddFn(a, b)
      [] func = "Div" -> DivFn(a, b)
      [] func = "Exp" -> ExpFn(a, b)
      [] func = "Sub" -> SubFn(a, b)
      [] func = "Mul" -> MulFn(a, b)

\* State::apply
Apply(s, func) ==
    LET popped == VecPop(s.stack)
    IN  IF popped.some
        THEN LET r == Call1(func, popped.val)
             IN  IF r.panic THEN Panicked(popped.rest, s.vars)
                 ELSE Running(PushVal(popped.rest, r.val), s.vars)
        ELSE Running(popped.rest, s.vars)

\* State::apply2
Apply2(s, func) ==
    LET popped == Pop2(s.stack)
    IN  IF popped.some
        THEN LET r == Call2(func, popped.a, popped.b)
             IN  IF r.panic THEN Panicked(popped.rest, s.vars)
                 ELSE Running(PushVal(popped.rest, r.val), s.vars)
        ELSE Running(popped.rest, s.vars)

\* mutant of add_var: an existing binding is kept (entry().or_insert())
AddVarKeepFirst(vs, key, value) ==
    [k \in DOMAIN vs \cup {key} |-> IF k \in DOMAIN vs THEN vs[k] ELSE value]

\* State::add_var (HashMap::insert)
AddVar(vs, key, value) ==
    [k \in DOMAIN vs \cup {key} |-> IF k = key THEN value ELSE vs[k]]

\* mutant of get_var: an unbound name reads as 0 (unwrap_or_default())
GetVarDefault(vs, key) == IF key \in DOMAIN vs THEN Some(vs[key]) ELSE Some(0)

\* State::get_var (HashMap::get, cloned)
GetVar(vs, key) == IF key \in DOMAIN vs THEN Some(vs[key]) ELSE None

\* State::exec, Op::Prod: drain the stack, push the product
ExecProd(s) ==
    LET product == Product(s.stack)
    IN  IF product.panic THEN Panicked(<<>>, s.vars)
        ELSE Running(PushVal(<<>>, product.val), s.vars)

\* State::exec, Op::Sum: drain the stack, push the sum
ExecSum(s) ==
    LET sum == IterSum(s.stack)
    IN  IF sum.panic THEN Panicked(<<>>, s.vars)
        ELSE Running(PushVal(<<>>, sum.val), s.vars)

\* mutant of Op::Swap: the two popped values are pushed back in the order
\* they had (push(b).push(a))
ExecSwapSameOrder(s) ==
    LET popped == Pop2(s.stack)
    IN  IF popped.some
        THEN Running(PushVal(PushVal(popped.rest, popped.b), popped.a), s.vars)
        ELSE Running(popped.rest, s.vars)

\* State::exec, Op::Swap
ExecSwap(s) ==
    LET popped == Pop2(s.stack)
    IN  IF popped.some
        THEN Running(PushVal(PushVal(popped.rest, popped.a), popped.b), s.vars)
        ELSE Running(popped.rest, s.vars)

\* mutant of Op::VarInit: an empty stack binds the name to 0
\* (pop().unwrap_or_default())
ExecVarInitDefault(s, name) ==
    LET popped == VecPop(s.stack)
    IN  IF popped.some
        THEN Running(popped.rest, AddVar(s.vars, name, popped.val))
        ELSE Running(popped.rest, AddVar(s.vars, name, 0))

\* State::exec, Op::VarInit(name)
ExecVarInit(s, name) ==
    LET popped == VecPop(s.stack)
    IN  IF popped.some
        THEN Running(popped.rest, AddVar(s.vars, name, popped.val))
        ELSE Running(popped.rest, s.vars)

\* mutant of Op::VarRef: reading a variable takes it out of the table
\* (HashMap::remove instead of get)
ExecVarRefRemoving(s, name) ==
    LET a == GetVar(s.vars, name)
    IN  IF a.some
        THEN Running(PushVal(s.stack, a.val),
                     [k \in DOMAIN s.vars \ {name} |-> s.vars[k]])
        ELSE Running(s.stack, s.vars)

\* State::exec, Op::VarRef(name)
ExecVarRef(s, name) ==
    LET a == GetVar(s.vars, name)
    IN  IF a.some THEN Running(PushVal(s.stack, a.val), s.vars)
        ELSE Running(s.stack, s.vars)

\* State::exec
Exec(s, o) ==
    CASE o.kind = "Add" -> Apply2(s, "Add")
      [] o.kind = "Clear" -> Running(ClearStack(s.stack), s.vars)
      [] o.kind = "Div" -> Apply2(s, "Div")
      [] o.kind = "Double" -> Apply(s, "Double")
      [] o.kind = "Exp" -> Apply2(s, "Exp")
      [] o.kind = "Fact" -> Apply(s, "Fact")
      [] o.kind = "Square" -> Apply(s, "Square")
      [] o.kind = "Sub" -> Apply2(s, "Sub")
      [] o.kind = "Mul" -> Apply2(s, "Mul")
      [] o.kind = "Inv" -> Apply(s, "Inv")
      [] o.kind = "Prod" -> ExecProd(s)
      [] o.kind = "Push" -> Running(PushVal(s.stack, o.value), s.vars)
      [] o.kind = "Sum" -> ExecSum(s)
      [] o.kind = "Swap" -> ExecSwap(s)
      [] o.kind = "VarInit" -> ExecVarInit(s, o.name)
      [] o.kind = "VarRef" -> ExecVarRef(s, o.name)
      [] o.kind = "Noop" -> Running(s.stack, s.vars)

\* str::split_whitespace: the maximal runs of non-whitespace, left to right
RECURSIVE SplitWhitespace(_)
SplitWhitespace(cmds) ==
    IF cmds = <<>> THEN <<>>
    ELSE IF cmds[1] \in Whitespace THEN SplitWhitespace(Tail(cmds))
    ELSE LET stops == {i \in 1..Len(cmds) : cmds[i] \in Whitespace}
             n == IF stops = {} THEN Len(cmds)
                  ELSE (CHOOSE i \in stops : \A j \in stops : i <= j) - 1
         IN  <<SubSeq(cmds, 1, n)>> \o SplitWhitespace(SubSeq(cmds, n + 1, Len(cmds)))

\* the loop of State::eval over the tokens; a panic ends it
RECURSIVE EvalTokens(_, _)
EvalTokens(s, tokens) ==
    IF tokens = <<>> THEN Running(s.stack, s.vars)
    ELSE LET r == Exec(s, OpFrom(Head(tokens)))
         IN  IF r.panic THEN r
             ELSE EvalTokens(r, Tail(tokens))

\* mutant of State::eval: the tokens are executed from the last to the
\* first (split_whitespace().rev())
EvalRightToLeft(s, cmds) ==
    LET tokens == SplitWhitespace(cmds)
    IN  EvalTokens(s, [i \in 1..Len(tokens) |-> tokens[Len(tokens) + 1 - i]])

\* State::eval
Eval(s, cmds) == EvalTokens(s, SplitWhitespace(cmds))

\* isize's Display: the decimal digits, with a leading - when negative
RECURSIVE NatToString(_)
NatToString(n) ==
    IF n < 10 THEN <<DigitChar(n)>>
    ELSE NatToString(n \div 10) \o <<DigitChar(n % 10)>>

IntToString(val) == IF val < 0 THEN <<"-">> \o NatToString(-val) ELSE NatToString(val)

\* impl Display for State: every value of the stack, bottom first, each
\* followed by one space
RECURSIVE Fmt(_)
Fmt(stk) ==
    IF stk = <<>> THEN <<>>
    ELSE IntToString(Head(stk)) \o <<" ">> \o Fmt(Tail(stk))

-----------------------------------------------------------------------------
(* Inputs *)

\* a token of tokens joined by a separator
RECURSIVE Join(_, _)
Join(tokens, sep) ==
    IF tokens = <<>> THEN <<>>
    ELSE IF Len(tokens) = 1 THEN tokens[1]
    ELSE tokens[1] \o sep \o Join(Tail(tokens), sep)

\* the 13 exact tokens of impl From<&str> for Op
Keywords ==
    {<<"*">>, <<"*", "*">>, <<"+">>, <<"/">>, <<"-">>, <<"!">>, <<"^">>,
     <<"^", "^">>, <<"c">>, <<"i", "n", "v">>, <<"s", "w", "a", "p">>,
     <<"s", "u", "m">>, <<"p", "r", "o", "d">>}

\* the characters tokens are drawn from: signs, sigils, an operator, a
\* letter that is also a keyword, and digits that spell both ends of the
\* integer range and values beyond them
Alphabet == {"-", "+", "=", "$", "*", "c", "0", "1", "2", "7", "8"}

\* the tokens drawn for the classifier (split_whitespace yields no empty token)
TokenInputs == (BoundedSeq(Alphabet, MaxTokenLen) \ {<<>>}) \cup Keywords

\* variable names
Names == {<<"f", "o", "o">>, <<"x">>}

\* the values drawn for stacks: both ends of the range, the values around
\* zero, small operands, and the first exponent that `as u32` truncates
StackValues == {MinInt, -1, 0, 1, 2, 3, 4, 5, Pow2(CastBits), MaxInt}

\* deeper stacks: an element below the MaxStack operands drawn on top of it
DeepStacks == {<<7>> \o s : s \in [1..MaxStack -> {-1, 2, 5}]}

\* the tables drawn for vars: every subset of Names bound to 3 or 5
VarTables == UNION {[D -> {3, 5}] : D \in SUBSET Names}

\* the operations drawn for one exec
OpInputs ==
    {Add, Clear, Div, Double, Exp, Fact, Inv, Mul, Noop, Prod, Square, Sub, Sum, Swap}
    \cup {Push(v) : v \in StackValues}
    \cup {VarInit(n) : n \in Names} \cup {VarRef(n) : n \in Names}

IdleOp == [kind |-> "None"]

-----------------------------------------------------------------------------
(* SpecParse: Op::from on one token *)

InitParse ==
    /\ token \in TokenInputs
    /\ pc = "classify"
    /\ op = IdleOp
    /\ stack = <<>> /\ vars = EmptyVars /\ completer = None
    /\ output = <<>> /\ preview = None /\ partial = <<>> /\ submitted = <<>>
    /\ overflow_checks = FALSE /\ pre = None /\ line = <<>>

\* let op: Op = token.into()
Classify ==
    /\ pc = "classify"
    /\ op' = OpFrom(token)
    /\ pc' = "classified"
    /\ UNCHANGED <<stack, vars, completer, output, preview, partial, submitted,
                   overflow_checks, pre, token, line>>

NextParse == Classify

SpecParse == InitParse /\ [][NextParse]_vars_all

-----------------------------------------------------------------------------
(* SpecExec: one State::exec.  Every State drawn is one the program can    *)
(* reach: pushes build any stack, pushes and assignments any table.        *)

InitExec ==
    /\ stack \in BoundedSeq(StackValues, MaxStack) \cup DeepStacks
    /\ vars \in VarTables
    /\ overflow_checks \in BOOLEAN
    /\ pc = "exec"
    /\ op = IdleOp /\ pre = None
    /\ completer = None /\ output = <<>> /\ preview = None /\ partial = <<>>
    /\ submitted = <<>> /\ token = <<>> /\ line = <<>>

\* state.exec(o)
ExecOp(o) ==
    /\ pc = "exec"
    /\ LET r == Exec([stack |-> stack, vars |-> vars], o)
       IN  /\ stack' = r.stack
           /\ vars' = r.vars
           /\ pc' = IF r.panic THEN "panicked" ELSE "done"
    /\ pre' = Some([stack |-> stack, vars |-> vars])
    /\ op' = o
    /\ UNCHANGED <<completer, output, preview, partial, submitted,
                   overflow_checks, token, line>>

NextExec == pc = "exec" /\ \E o \in OpInputs : ExecOp(o)

SpecExec == InitExec /\ [][NextExec]_vars_all

-----------------------------------------------------------------------------
(* SpecEval: one State::eval of a line *)

\* the tokens lines are made of: literals (the largest integer among
\* them), Add, an assignment and a reference
LineTokens ==
    {<<"3">>, <<"5">>, IntToString(MaxInt), <<"+">>,
     <<"=", "f", "o", "o">>, <<"$", "f", "o", "o">>}

\* the lines drawn: up to MaxLineTokens tokens with one space between
\* them, and short lines with more whitespace around and between
LineInputs ==
    {Join(ts, <<" ">>) : ts \in BoundedSeq(LineTokens, MaxLineTokens)}
    \cup {<<" ">> \o Join(ts, <<"\t", " ">>) \o <<"\t">> : ts \in BoundedSeq(LineTokens, 2)}

InitEval ==
    /\ stack \in {[i \in 1..k |-> IF i % 2 = 1 THEN 2 ELSE 7] : k \in 0..MaxStack}
    /\ vars \in {EmptyVars, [n \in {<<"f", "o", "o">>} |-> 9]}
    /\ overflow_checks \in BOOLEAN
    /\ pc = "eval"
    /\ line = <<>> /\ pre = None
    /\ completer = None /\ output = <<>> /\ preview = None /\ partial = <<>>
    /\ submitted = <<>> /\ token = <<>> /\ op = IdleOp

\* state.eval(&l)
EvalLine(l) ==
    /\ pc = "eval"
    /\ LET r == Eval([stack |-> stack, vars |-> vars], l)
       IN  /\ stack' = r.stack
           /\ vars' = r.vars
           /\ pc' = IF r.panic THEN "panicked" ELSE "done"
    /\ pre' = Some([stack |-> stack, vars |-> vars])
    /\ line' = l
    /\ UNCHANGED <<completer, output, preview, partial, submitted,
                   overflow_checks, token, op>>

NextEval == pc = "eval" /\ \E l \in LineInputs : EvalLine(l)

SpecEval == InitEval /\ [][NextEval]_vars_all

-----------------------------------------------------------------------------
(* Spec: the session, fn main *)

\* the lines a session submits
SessionLines ==
    {<<>>, <<"3">>, <<"5">>, <<"+">>, <<"c">>,
     <<"3", " ", "5", " ", "+">>,
     <<"3", " ", "=", "f", "o", "o">>, <<"$", "f", "o", "o">>,
     <<"5", " ", "3", " ", "=", "f", "o", "o">>, <<" ", "\t">>,
     <<"5", " ", "0", " ", "/">>,
     IntToString(MinInt) \o <<" ", "-", "1", " ", "/">>}

\* the partial lines completion is asked for
PartialLines ==
    {<<>>, <<"3">>, <<"3", " ", "5">>, <<"+">>, <<"c">>,
     <<"1", " ", "=", "f", "o", "o">>, <<"$", "f", "o", "o">>,
     IntToString(MaxInt) \o <<" ", "*", "*">>}

\* Colour::paint, then Display of the painted string: the text, shown in
\* the colour
Paint(colour, text) == [colour |-> colour, text |-> text]

\* State: Clone (to_owned): an independent copy with the same contents
ToOwned(s) == [stack |-> s.stack, vars |-> s.vars]

\* let mut state = State::new(); ... Editor::with_config(config)
Init ==
    /\ stack = New.stack
    /\ vars = New.vars
    /\ completer = None
    /\ pc = "set_completer"
    /\ output = <<>> /\ preview = None /\ partial = <<>>
    /\ submitted = <<>>
    /\ overflow_checks \in BOOLEAN
    /\ pre = None /\ op = IdleOp /\ token = <<>> /\ line = <<>>

\* mutant of the loop's first statement: the editor gets its State once,
\* before the first line, and keeps it
SetCompleterOnce ==
    /\ pc = "set_completer"
    /\ completer' = IF completer.some THEN completer
                    ELSE Some(ToOwned([stack |-> stack, vars |-> vars]))
    /\ pc' = "readline"
    /\ UNCHANGED <<stack, vars, output, preview, partial, submitted,
                   overflow_checks, pre, op, token, line>>

\* editor.set_completer(Some(state.to_owned()))
SetCompleter ==
    /\ pc = "set_completer"
    /\ completer' = Some(ToOwned([stack |-> stack, vars |-> vars]))
    /\ pc' = "readline"
    /\ UNCHANGED <<stack, vars, output, preview, partial, submitted,
                   overflow_checks, pre, op, token, line>>

\* mutant of complete: the partial line is evaluated on the session's State
\* itself (the editor shares the State instead of holding a copy)
CompleteInPlace(l) ==
    /\ pc = "readline"
    /\ LET r == Eval([stack |-> stack, vars |-> vars], l)
       IN  IF r.panic
           THEN /\ pc' = "panicked"
                /\ UNCHANGED <<preview, partial, stack, vars, completer>>
           ELSE /\ preview' = Some(Paint("Yellow", Fmt(r.stack)))
                /\ partial' = l
                /\ pc' = pc
                /\ stack' = r.stack
                /\ vars' = r.vars
                /\ completer' = Some([stack |-> r.stack, vars |-> r.vars])
    /\ UNCHANGED <<output, submitted, overflow_checks, pre, op, token, line>>

\* Completer::complete, called by the editor while readline waits: the
\* partial line is evaluated on a copy of the editor's State
Complete(l) ==
    /\ pc = "readline"
    /\ LET r == Eval(ToOwned(completer.val), l)
       IN  IF r.panic
           THEN /\ pc' = "panicked"
                /\ UNCHANGED <<preview, partial>>
           ELSE /\ preview' = Some(Paint("Yellow", Fmt(r.stack)))
                /\ partial' = l
                /\ pc' = pc
    /\ UNCHANGED <<stack, vars, completer, output, submitted,
                   overflow_checks, pre, op, token, line>>

\* editor.readline(PROMPT) returns Ok(l): state.eval(&l)
ReadlineOk(l) ==
    /\ pc = "readline"
    /\ Len(submitted) < MaxSubmissions
    /\ LET r == Eval([stack |-> stack, vars |-> vars], l)
       IN  /\ stack' = r.stack
           /\ vars' = r.vars
           /\ pc' = IF r.panic THEN "panicked" ELSE "println"
    /\ pre' = Some([stack |-> stack, vars |-> vars])
    /\ line' = l
    /\ submitted' = Append(submitted, l)
    /\ preview' = None
    /\ partial' = <<>>
    /\ UNCHANGED <<completer, output, overflow_checks, op, token>>

\* editor.readline(PROMPT) returns Err(_): break
ReadlineErr ==
    /\ pc = "readline"
    /\ pc' = "exited"
    /\ UNCHANGED <<stack, vars, completer, output, preview, partial, submitted,
                   overflow_checks, pre, op, token, line>>

\* println!("= {}", state.peek().unwrap_or(&0))
Println ==
    /\ pc = "println"
    /\ LET top == Peek(stack)
           val == IF top.some THEN top.val ELSE 0
       IN  output' = Append(output, [prefix |-> <<"=", " ">>,
                                     result |-> Paint("Green", IntToString(val))])
    /\ pc' = "set_completer"
    /\ UNCHANGED <<stack, vars, completer, preview, partial, submitted,
                   overflow_checks, pre, op, token, line>>

Next ==
    \/ SetCompleter
    \/ \E l \in PartialLines : Complete(l)
    \/ \E l \in SessionLines : ReadlineOk(l)
    \/ ReadlineErr
    \/ Println

Spec == Init /\ [][Next]_vars_all

-----------------------------------------------------------------------------
(* The claims about the classifier, checked under SpecParse *)

\* the token grammar as the specification states it
IsIdentifier(n) ==
    /\ n # <<>>
    /\ n[1] \in Letters
    /\ \A i \in 1..Len(n) : n[i] \in AlphaNum
\* the token contains the sigil immediately followed by an identifier
ContainsPattern(sigil, t) ==
    \E i \in 1..(Len(t) - 1) : t[i] = sigil /\ t[i + 1] \in Letters
\* -?[0-9]+
IsMinusLiteral(t) == IsDigitString(IF t # <<>> /\ t[1] = "-" THEN Tail(t) ELSE t)
\* [+-]?[0-9]+
IsSignedLiteral(t) ==
    IsDigitString(IF t # <<>> /\ t[1] \in {"+", "-"} THEN Tail(t) ELSE t)
LiteralValue(t) ==
    IF t[1] = "-" THEN -DecimalValue(Tail(t))
    ELSE IF t[1] = "+" THEN DecimalValue(Tail(t))
    ELSE DecimalValue(t)
\* neither a fixed keyword nor a match of the assignment or reference pattern
IsPlainToken(t) ==
    /\ t \notin Keywords
    /\ ~ContainsPattern("=", t)
    /\ ~ContainsPattern("$", t)
OpKinds ==
    {"Add", "Clear", "Div", "Double", "Exp", "Fact", "Inv", "Mul", "Noop", "Prod",
     "Push", "Square", "Sub", "Sum", "Swap", "VarInit", "VarRef"}

\* C7 as stated: a plain token classifies as Push(v) exactly when the whole
\* token matches -?[0-9]+ and its value v fits the integer width, and as
\* Noop otherwise; every token yields one operation.
C7_LiteralMinusOnly ==
    pc = "classified" =>
        /\ op.kind \in OpKinds
        /\ IsPlainToken(token) =>
              op = IF IsMinusLiteral(token) /\ InRange(LiteralValue(token))
                   THEN Push(LiteralValue(token))
                   ELSE Noop

\* C7 amended: a plain token classifies as Push(v) exactly when the whole
\* token matches [+-]?[0-9]+ (a leading + is accepted as well as a leading
\* -) and its value v fits the integer width, and as Noop otherwise; every
\* token yields one operation.
C7_LiteralSigned ==
    pc = "classified" =>
        /\ op.kind \in OpKinds
        /\ IsPlainToken(token) =>
              op = IF IsSignedLiteral(token) /\ InRange(LiteralValue(token))
                   THEN Push(LiteralValue(token))
                   ELSE Noop

\* a token with a leading + has been classified as a Push
C7_Witness ==
    /\ pc = "classified"
    /\ token[1] = "+"
    /\ Len(token) > 1
    /\ op.kind = "Push"

\* the fixed keywords of the specification's section 4.1
KeywordOp(t) ==
    CASE t = <<"+">> -> Add
      [] t = <<"-">> -> Sub
      [] t = <<"*">> -> Mul
      [] t = <<"/">> -> Div
      [] t = <<"*", "*">> -> Double
      [] t = <<"^">> -> Exp
      [] t = <<"^", "^">> -> Square
      [] t = <<"!">> -> Fact
      [] t = <<"i", "n", "v">> -> Inv
      [] t = <<"s", "w", "a", "p">> -> Swap
      [] t = <<"c">> -> Clear
      [] t = <<"s", "u", "m">> -> Sum
      [] t = <<"p", "r", "o", "d">> -> Prod

\* C8: classification is first-match-wins: an exact keyword gives its
\* operation (so -, *, **, ^, ^^ are Sub, Mul, Double, Exp, Square); else a
\* token containing = followed by an identifier is an assignment, even when
\* it also contains a reference or digits; else a token containing $
\* followed by an identifier is a reference; else it is a literal or Noop.
C8_FirstMatchWins ==
    pc = "classified" =>
        /\ token \in Keywords => op = KeywordOp(token)
        /\ token \notin Keywords /\ ContainsPattern("=", token) =>
              op.kind = "VarInit" /\ IsIdentifier(op.name)
        /\ token \notin Keywords /\ ~ContainsPattern("=", token)
              /\ ContainsPattern("$", token) =>
              op.kind = "VarRef" /\ IsIdentifier(op.name)
        /\ IsPlainToken(token) => op.kind \in {"Push", "Noop"}

\* a token holding a reference and then an assignment is an assignment
C8_Witness ==
    /\ pc = "classified"
    /\ token = <<"$", "c", "=", "c">>
    /\ op = VarInit(<<"c">>)

-----------------------------------------------------------------------------
(* The claims about one exec, checked under SpecExec *)

Foo == <<"f", "o", "o">>
Top(stk) == stk[Len(stk)]
Front(stk) == SubSeq(stk, 1, Len(stk) - 1)

\* C1 as stated: executing an operation never panics: every exec ends in a
\* normal machine state, also when the result does not fit the integer
\* width (the minimum integer divided by -1 among the cases).
C1_ExecNeverPanics == pc # "panicked"

BinaryKinds == {"Add", "Sub", "Mul", "Div", "Exp", "Swap"}
UnaryKinds == {"Double", "Square", "Fact", "Inv"}

\* C2: underflow is a no-op: a binary operation or Swap on fewer than two
\* elements, and a unary operation on an empty stack, leave the stack and
\* the variable table exactly as they were (and do not panic).
C2_UnderflowNoOp ==
    (/\ pre.some
     /\ \/ op.kind \in BinaryKinds /\ Len(pre.val.stack) < 2
        \/ op.kind \in UnaryKinds /\ Len(pre.val.stack) = 0)
    => /\ pc = "done"
       /\ stack = pre.val.stack
       /\ vars = pre.val.vars

\* a binary operation has been executed on a one-element stack
C2_Witness ==
    /\ pc = "done"
    /\ op.kind = "Sub"
    /\ Len(pre.val.stack) = 1
    /\ Len(stack) = 1

\* the integer quotient, truncated towards zero
Quotient(b, a) ==
    IF (a < 0) # (b < 0) THEN -((IF b < 0 THEN -b ELSE b) \div (IF a < 0 THEN -a ELSE a))
    ELSE (IF b < 0 THEN -b ELSE b) \div (IF a < 0 THEN -a ELSE a)

\* C4 as stated: Divide on a stack of at least two elements (a the top, b
\* the second) removes both and pushes the integer quotient b / a, and 0
\* when a = 0; the stack gets shorter by exactly one, the rest unchanged.
C4_DividePushesQuotient ==
    (pre.some /\ op.kind = "Div" /\ Len(pre.val.stack) >= 2)
    => LET a == pre.val.stack[Len(pre.val.stack)]
           b == pre.val.stack[Len(pre.val.stack) - 1]
           rest == SubSeq(pre.val.stack, 1, Len(pre.val.stack) - 2)
       IN  /\ pc = "done"
           /\ stack = Append(rest, IF a = 0 THEN 0 ELSE Quotient(b, a))
           /\ vars = pre.val.vars

\* C9: AssignVariable(name) on an empty stack changes nothing: no binding
\* is created for name, an existing binding of name keeps its value, the
\* other bindings are unchanged and the stack stays empty.
C9_AssignOnEmptyNoOp ==
    (pre.some /\ op.kind = "VarInit" /\ pre.val.stack = <<>>)
    => /\ pc = "done"
       /\ stack = <<>>
       /\ DOMAIN vars = DOMAIN pre.val.vars
       /\ \A n \in DOMAIN vars : vars[n] = pre.val.vars[n]

\* an assignment to an unbound name has been executed on an empty stack,
\* with another name bound
C9_Witness ==
    /\ pc = "done"
    /\ op.kind = "VarInit"
    /\ pre.val.stack = <<>>
    /\ op.name \notin DOMAIN vars
    /\ DOMAIN vars # {}

\* C10: ReadVariable(name) of an unbound name pushes nothing and leaves the
\* stack and the table unchanged; of a bound name it pushes exactly the
\* bound value, leaves the rest of the stack unchanged and keeps every
\* binding.
C10_ReadVariable ==
    (pre.some /\ op.kind = "VarRef")
    => /\ pc = "done"
       /\ vars = pre.val.vars
       /\ stack = IF op.name \in DOMAIN pre.val.vars
                  THEN Append(pre.val.stack, pre.val.vars[op.name])
                  ELSE pre.val.stack

\* a reference to an unbound name has been executed on a non-empty stack,
\* with another name bound
C10_Witness ==
    /\ pc = "done"
    /\ op.kind = "VarRef"
    /\ op.name \notin DOMAIN pre.val.vars
    /\ DOMAIN pre.val.vars # {}
    /\ pre.val.stack # <<>>

\* C11: Swap is self-inverse: on a stack of at least two elements one Swap
\* exchanges exactly the top two (the former top becomes second, the former
\* second becomes top, the deeper elements and the length unchanged), and a
\* second Swap restores the original stack.
C11_SwapSelfInverse ==
    (pre.some /\ op.kind = "Swap" /\ Len(pre.val.stack) >= 2)
    => LET S == pre.val.stack
           n == Len(S)
           again == Exec([stack |-> stack, vars |-> vars], Swap)
       IN  /\ pc = "done"
           /\ Len(stack) = n
           /\ stack[n] = S[n - 1]
           /\ stack[n - 1] = S[n]
           /\ \A i \in 1..(n - 2) : stack[i] = S[i]
           /\ ~again.panic
           /\ again.stack = S

\* Swap has been executed on a three-element stack whose top two differ
C11_Witness ==
    /\ pc = "done"
    /\ op.kind = "Swap"
    /\ Len(pre.val.stack) = 3
    /\ pre.val.stack[2] # pre.val.stack[3]
    /\ stack = <<pre.val.stack[1], pre.val.stack[3], pre.val.stack[2]>>

\* the sum and the product of a sequence in the machine's arithmetic: the
\* mathematical value, reduced to the integer width
RECURSIVE NativeSum(_)
NativeSum(values) ==
    IF values = <<>> THEN 0 ELSE Wrap(Head(values) + NativeSum(Tail(values)))
RECURSIVE NativeProduct(_)
NativeProduct(values) ==
    IF values = <<>> THEN 1 ELSE Wrap(Head(values) * NativeProduct(Tail(values)))

\* C12 as stated: Sum-all and Product-all collapse the stack: from every
\* state, after Sum-all the stack has exactly one element, the sum of all
\* the elements that were on it (0 if it was empty); after Product-all
\* exactly one element, their product (1 if it was empty); the variable
\* table is unchanged.  (Sum and product are read in the machine's
\* arithmetic, reduced to the integer width.)
C12_SumProdCollapse ==
    (pre.some /\ op.kind \in {"Sum", "Prod"})
    => /\ pc = "done"
       /\ stack = <<IF op.kind = "Sum" THEN NativeSum(pre.val.stack)
                    ELSE NativeProduct(pre.val.stack)>>
       /\ vars = pre.val.vars

\* b to the power a (a >= 0) in the machine's arithmetic: the mathematical
\* value, reduced to the integer width
RECURSIVE NativePower(_, _)
NativePower(b, a) ==
    IF a = 0 THEN 1
    ELSE LET half == NativePower(b, a \div 2)
         IN  Wrap(Wrap(half * half) * (IF a % 2 = 1 THEN b ELSE 1))

\* C15 as stated: operand order of the binary operations: with at least two
\* elements, a the top and b the element below it, Subtract replaces the
\* two with b - a, Exponentiate (for a >= 0) with b^a, Multiply with a * b
\* and Add with a + b; the stack gets shorter by exactly one and the deeper
\* elements and the variable table are unchanged.  (The results are read in
\* the machine's arithmetic, reduced to the integer width.)
C15_BinaryOperandOrder ==
    (/\ pre.some
     /\ op.kind \in {"Sub", "Exp", "Mul", "Add"}
     /\ Len(pre.val.stack) >= 2
     /\ op.kind = "Exp" => Top(pre.val.stack) >= 0)
    => LET a == pre.val.stack[Len(pre.val.stack)]
           b == pre.val.stack[Len(pre.val.stack) - 1]
           rest == SubSeq(pre.val.stack, 1, Len(pre.val.stack) - 2)
           expected == CASE op.kind = "Sub" -> Wrap(b - a)
                         [] op.kind = "Exp" -> NativePower(b, a)
                         [] op.kind = "Mul" -> Wrap(a * b)
                         [] op.kind = "Add" -> Wrap(a + b)
       IN  /\ pc = "done"
           /\ stack = Append(rest, expected)
           /\ vars = pre.val.vars

\* the product of lo..hi inclusive (1 when hi < lo) in the machine's
\* arithmetic, and the factorial of a >= 0
RECURSIVE NativeRangeProduct(_, _)
NativeRangeProduct(lo, hi) ==
    IF hi < lo THEN 1
    ELSE IF hi = lo THEN Wrap(lo)
    ELSE LET mid == (lo + hi) \div 2
         IN  Wrap(NativeRangeProduct(lo, mid) * NativeRangeProduct(mid + 1, hi))
NativeFactorial(a) == NativeRangeProduct(1, a)

\* C16 as stated: the unary operations replace only the top: on a
\* non-empty stack with a the top, Double replaces a with a * 2, Square
\* with a^2, Negate with -a and Factorial (a >= 0) with the product of 1..a
\* inclusive, 1 for a = 0; the length and the elements below the top are
\* unchanged (4 squared is 16, the factorial of 5 is 120).  (The results
\* are read in the machine's arithmetic, reduced to the integer width.)
C16_UnaryReplacesTop ==
    (/\ pre.some
     /\ op.kind \in {"Double", "Square", "Inv", "Fact"}
     /\ pre.val.stack # <<>>
     /\ op.kind = "Fact" => Top(pre.val.stack) >= 0)
    => LET a == Top(pre.val.stack)
           expected == CASE op.kind = "Double" -> Wrap(a * 2)
                         [] op.kind = "Square" -> Wrap(a * a)
                         [] op.kind = "Inv" -> Wrap(-a)
                         [] op.kind = "Fact" -> NativeFactorial(a)
       IN  /\ pc = "done"
           /\ stack = Append(Front(pre.val.stack), expected)
           /\ (op.kind = "Square" /\ a = 4) => Top(stack) = 16
           /\ (op.kind = "Fact" /\ a = 5) => Top(stack) = 120

\* C17: the variable table changes only through AssignVariable executed
\* on a non-empty stack: every other operation leaves it unchanged; a
\* successful AssignVariable(n) binds n to the popped value and changes no
\* other binding, so a name once bound stays bound; ReadVariable(n) pushes
\* the value the table holds for n, and right after a successful
\* AssignVariable(n) that is the value it popped, whatever n was bound to
\* before (last write wins).
C17_VarsChangeOnlyByAssign ==
    pre.some =>
        LET S == pre.val.stack
            V == pre.val.vars
            assigned == op.kind = "VarInit" /\ S # <<>>
        IN  /\ ~assigned => vars = V
            /\ assigned =>
                  /\ DOMAIN vars = DOMAIN V \cup {op.name}
                  /\ vars[op.name] = Top(S)
                  /\ \A k \in DOMAIN V \ {op.name} : vars[k] = V[k]
                  /\ LET read == Exec([stack |-> stack, vars |-> vars], VarRef(op.name))
                     IN  /\ ~read.panic
                         /\ read.stack = Append(stack, Top(S))
                         /\ read.vars = vars
            /\ DOMAIN V \subseteq DOMAIN vars
            /\ (op.kind = "VarRef" /\ op.name \in DOMAIN V) =>
                  stack = Append(S, V[op.name])

\* an assignment has overwritten foo with another value than it had, with
\* x bound as well
C17_Witness ==
    /\ pc = "done"
    /\ op = VarInit(Foo)
    /\ pre.val.stack # <<>>
    /\ DOMAIN pre.val.vars = Names
    /\ pre.val.vars[Foo] # Top(pre.val.stack)
    /\ vars[Foo] = Top(pre.val.stack)
    /\ vars[<<"x">>] = pre.val.vars[<<"x">>]

-----------------------------------------------------------------------------
(* The claims about one eval, checked under SpecEval *)

TokAssignFoo == <<"=", "f", "o", "o">>
TokReadFoo == <<"$", "f", "o", "o">>
IsIntLiteral(t) == IsSignedLiteral(t) /\ InRange(LiteralValue(t))

\* C5: assign-then-read round trip: on a stack S with v on top, `=foo`
\* removes v (leaving S without its top) and binds foo to v; `$foo` next
\* pushes v, so the stack is S again and peek is v.  From the empty
\* machine, `v =foo` leaves the stack empty and foo bound to v.
C5_AssignThenRead ==
    pre.some =>
        LET tokens == SplitWhitespace(line)
            S == pre.val.stack
        IN  /\ (tokens = <<TokAssignFoo>> /\ S # <<>>) =>
                  /\ pc = "done"
                  /\ stack = Front(S)
                  /\ DOMAIN vars = DOMAIN pre.val.vars \cup {Foo}
                  /\ vars[Foo] = Top(S)
            /\ (tokens = <<TokAssignFoo, TokReadFoo>> /\ S # <<>>) =>
                  /\ pc = "done"
                  /\ stack = S
                  /\ Peek(stack) = Some(Top(S))
                  /\ vars[Foo] = Top(S)
            /\ (/\ pre.val = New
                /\ Len(tokens) = 2
                /\ IsIntLiteral(tokens[1])
                /\ tokens[2] = TokAssignFoo) =>
                  /\ pc = "done"
                  /\ stack = <<>>
                  /\ Peek(stack) = None
                  /\ vars = [n \in {Foo} |-> LiteralValue(tokens[1])]

\* `=foo $foo` has been evaluated on a non-empty stack with foo bound to
\* another value than the top
C5_Witness ==
    /\ pc = "done"
    /\ SplitWhitespace(line) = <<TokAssignFoo, TokReadFoo>>
    /\ pre.val.stack # <<>>
    /\ Foo \in DOMAIN pre.val.vars
    /\ pre.val.vars[Foo] # Top(pre.val.stack)
    /\ vars[Foo] = Top(stack)

\* the tokens are one or more integer literals followed by +
IsPushesThenAdd(tokens) ==
    /\ Len(tokens) >= 2
    /\ tokens[Len(tokens)] = <<"+">>
    /\ \A i \in 1..(Len(tokens) - 1) : IsIntLiteral(tokens[i])

RECURSIVE SumOf(_)
SumOf(values) == IF values = <<>> THEN 0 ELSE Head(values) + SumOf(Tail(values))

\* the operations executed one by one; a panic ends them
RECURSIVE ExecAll(_, _)
ExecAll(s, ops) ==
    IF ops = <<>> THEN Running(s.stack, s.vars)
    ELSE LET r == Exec(s, Head(ops))
         IN  IF r.panic THEN r ELSE ExecAll(r, Tail(ops))

\* the pushes of the literals, then Add
PushesThenAdd(tokens) ==
    [i \in 1..Len(tokens) |->
        IF i < Len(tokens) THEN Push(LiteralValue(tokens[i])) ELSE Add]

\* C6 as stated: from the empty machine, after any pushes followed by Add
\* the top is the arithmetic sum of the pushed values, and the text line
\* gives the same top as the operations executed one by one.  (Read here
\* in the claim's favour: only for sums that fit the integer width.)
C6_TopIsSumOfPushed ==
    LET tokens == SplitWhitespace(line)
        sum == SumOf([i \in 1..(Len(tokens) - 1) |-> LiteralValue(tokens[i])])
    IN  (pre = Some(New) /\ IsPushesThenAdd(tokens) /\ InRange(sum)) =>
            /\ pc = "done"
            /\ Peek(stack) = Some(sum)
            /\ stack = ExecAll(New, PushesThenAdd(tokens)).stack

\* C6 amended: from the empty machine, after one or more pushes followed
\* by Add the top is the sum of the last two pushed values (the pushed
\* value itself after a single push) whenever that sum fits the integer
\* width; and in every case the text line gives the same outcome (stack,
\* or panic) as the operations executed one by one.
C6_TopIsSumOfLastTwo ==
    LET tokens == SplitWhitespace(line)
        n == Len(tokens) - 1
    IN  (pre = Some(New) /\ IsPushesThenAdd(tokens)) =>
            LET expected == IF n = 1 THEN LiteralValue(tokens[1])
                            ELSE LiteralValue(tokens[n - 1]) + LiteralValue(tokens[n])
                byOps == ExecAll(New, PushesThenAdd(tokens))
            IN  /\ InRange(expected) => pc = "done" /\ Peek(stack) = Some(expected)
                /\ (pc = "panicked") = byOps.panic
                /\ pc = "done" => stack = byOps.stack /\ vars = byOps.vars

\* `3 5 +` has been evaluated on the empty machine and the top is 8
C6_Witness ==
    /\ pc = "done"
    /\ pre = Some(New)
    /\ SplitWhitespace(line) = <<<<"3">>, <<"5">>, <<"+">>>>
    /\ Peek(stack) = Some(8)

-----------------------------------------------------------------------------
(* The claims about the session, checked under Spec *)

\* the State the submitted lines alone produce, from State::new
RECURSIVE Replay(_)
Replay(lines) ==
    IF lines = <<>> THEN Running(New.stack, New.vars)
    ELSE LET s == Replay(SubSeq(lines, 1, Len(lines) - 1))
         IN  IF s.panic THEN s ELSE Eval(s, lines[Len(lines)])

\* C3: speculative evaluation never leaks into the session: whatever
\* completions were asked in between, the session's stack and variable
\* table are those the submitted lines alone produce, and while readline
\* waits the editor's snapshot still equals the session's State.
C3_PreviewNeverLeaks ==
    /\ stack = Replay(submitted).stack
    /\ vars = Replay(submitted).vars
    /\ pc = "readline" => completer = Some([stack |-> stack, vars |-> vars])

\* after a submission, a completion of `3 5` has been computed, showing a
\* stack that is not the session's
C3_Witness ==
    /\ pc = "readline"
    /\ Len(submitted) >= 1
    /\ partial = <<"3", " ", "5">>
    /\ preview.some
    /\ preview.val.text # Fmt(stack)

\* the result the last println! showed (without the "= " before it)
LastResult == output[Len(output)].result.text

\* C13: Clear (`c`) from any reachable state leaves the stack empty, so peek
\* yields no value and the result displayed for the line is the default 0,
\* while every variable binding made before the Clear is still there with
\* the same value.
C13_ClearEmptiesStack ==
    (pre.some /\ SplitWhitespace(line) = <<<<"c">>>>)
    => /\ stack = <<>>
       /\ Peek(stack) = None
       /\ vars = pre.val.vars
       /\ pc # "println" => Len(output) = Len(submitted) /\ LastResult = <<"0">>

\* `c` has been submitted with a value on the stack and foo bound, and its
\* result has been displayed
C13_Witness ==
    /\ pc = "readline"
    /\ line = <<"c">>
    /\ pre.val.stack # <<>>
    /\ Foo \in DOMAIN pre.val.vars
    /\ vars[Foo] = 3
    /\ stack = <<>>
    /\ LastResult = <<"0">>

\* the result line the program shows for a stack: "= ", then in green the
\* top of the stack, or 0 for the empty stack
ResultOf(stk) ==
    [prefix |-> <<"=", " ">>,
     result |-> [colour |-> "Green",
                 text |-> IntToString(IF stk = <<>> THEN 0 ELSE stk[Len(stk)])]]

\* C14 as stated: after every successfully read submission, and before the
\* next line is accepted, the program has written exactly one result for
\* it: the top of the stack reached by evaluating that whole line, or 0 if
\* that stack is empty; when reading fails the loop ends without writing a
\* result.  (Between the evaluation and its println! the result is the one
\* still to come; at every other point each submission has its result.)
C14_OneResultPerSubmission ==
    /\ pc = "println" => Len(output) = Len(submitted) - 1
    /\ pc # "println" => Len(output) = Len(submitted)
    /\ \A i \in 1..Len(output) :
          output[i] = ResultOf(Replay(SubSeq(submitted, 1, i)).stack)
    /\ (pc = "readline" /\ submitted # <<>>) => output[Len(output)] = ResultOf(stack)

\* the operations of the tokens of a line, in the order of the tokens
OpsOf(l) == LET tokens == SplitWhitespace(l)
            IN  [i \in 1..Len(tokens) |-> OpFrom(tokens[i])]

\* C18: line evaluation is sequential composition on one persistent machine:
\* a submitted line executes the operations of its tokens strictly left to
\* right on the session's State; an empty or whitespace-only line changes
\* nothing; and the lines submitted one after the other leave the stack and
\* the variable table that the single line made of them, joined by a space,
\* gives from the new machine.
C18_SequentialComposition ==
    pre.some =>
        LET byOps == ExecAll(pre.val, OpsOf(line))
            joined == Eval(New, Join(submitted, <<" ">>))
        IN  /\ stack = byOps.stack
            /\ vars = byOps.vars
            /\ byOps.panic => pc = "panicked"
            /\ SplitWhitespace(line) = <<>> => stack = pre.val.stack /\ vars = pre.val.vars
            /\ stack = joined.stack
            /\ vars = joined.vars
            /\ joined.panic => pc = "panicked"

\* `5 3 =foo` and then `$foo` have been submitted: the second line has read
\* the variable the first one bound, on the stack the first one left
C18_Witness ==
    /\ pc = "readline"
    /\ submitted = <<<<"5", " ", "3", " ", "=", "f", "o", "o">>, <<"$", "f", "o", "o">>>>
    /\ pre.val.stack = <<5>>
    /\ stack = <<5, 3>>
    /\ vars[Foo] = 3

\* the full-stack rendering: the elements bottom to top, each in decimal
\* and followed by one space
RECURSIVE Rendering(_)
Rendering(stk) ==
    IF stk = <<>> THEN <<>>
    ELSE Rendering(Front(stk)) \o IntToString(Top(stk)) \o <<" ">>

\* C19: the preview is faithful and fresh: while the program waits for the
\* n-th submission, the preview computed for a partial line L is the
\* full-stack rendering of exactly the stack the session would have if L
\* were submitted at that moment: it comes from a snapshot that reflects
\* all the n - 1 earlier submissions, never an older state.
C19_PreviewFaithfulFresh ==
    (pc = "readline" /\ preview.some) =>
        LET now == Eval([stack |-> stack, vars |-> vars], partial)
            replayed == Eval(Replay(submitted), partial)
        IN  /\ ~now.panic
            /\ preview.val.text = Rendering(now.stack)
            /\ preview.val.text = Rendering(replayed.stack)

\* after the submission of `5`, the preview of `3 5` shows the 5 of the
\* session below the two new values
C19_Witness ==
    /\ pc = "readline"
    /\ submitted = <<<<"5">>>>
    /\ partial = <<"3", " ", "5">>
    /\ preview = Some(Paint("Yellow", <<"5", " ", "3", " ", "5", " ">>))

=============================================================================
